---- MODULE Spec2Model ----
(***************************************************************************)
(* The command-line driver of the compiler (CommandLineInterface.cpp):     *)
(* parseArguments, processInput (input loading, the fileReader callback,   *)
(* engine configuration, the compile call, the catch chain) and            *)
(* actOnInput / outputCompilationResults.                                  *)
(*                                                                         *)
(* Strings that the code inspects character by character (input tokens,    *)
(* paths) are sequences of one-character strings.  The two output streams  *)
(* are one interleaved sequence `log` of records [ch, kind, arg].          *)
(* The compilation engine (CompilerStack) and the caller of the three      *)
(* entry points are outside the file; they are modelled by their interface *)
(* with every outcome the interface allows.                                *)
(***************************************************************************)
EXTENDS Naturals, Sequences, FiniteSets

\* ------------------------------------------------------------------ bounds
MaxFlags == 2        \* options given on one command line
MaxReads == 1        \* fileReader invocations made by the engine in one compile
MaxErrors == 1       \* diagnostics the engine accumulates in one compile
MaxContracts == 1    \* contracts the engine reports
MaxTracedReads == 2  \* fileReader invocations in one compile, requests kept

\* ------------------------------------------------------------ option names
g_argAstJson == "ast-json"
g_argAstCompactJson == "ast-compact-json"
g_argHelp == "help"
g_argVersion == "version"
g_strLicense == "license"
g_argNatspecDev == "devdoc"
g_argNatspecUser == "userdoc"
g_argOutputDir == "output-dir"
g_argFile == "file"
g_argDebug == "debug"
g_argSetContract == "contract"
g_argTvm == "tvm"
g_argTvmABI == "tvm-abi"
g_argTvmOptimize == "tvm-optimize"
g_argTvmPeephole == "tvm-peephole"
g_argTvmUnsavedStructs == "tvm-unsaved-structs"

\* the options declared in parseArguments, without the positional input-file
Options ==
  { g_argHelp, g_argVersion, g_strLicense, g_argOutputDir, g_argSetContract,
    g_argFile, g_argAstJson, g_argAstCompactJson, g_argNatspecUser,
    g_argNatspecDev, g_argTvm, g_argTvmABI, g_argTvmPeephole,
    g_argTvmOptimize, g_argTvmUnsavedStructs, g_argDebug }

\* ------------------------------------------------------------ file system
\* Paths and tokens.  "a" and "./a" name the same regular file, "b" is a
\* second regular file, "d" a directory, "m" does not exist.
PathA == <<"a">>
PathDotA == <<".", "/", "a">>
PathB == <<"b">>
PathD == <<"d">>
PathM == <<"m">>
TokRemap == <<"c", ":", "l", "=", "d">>
TokBadRemap == <<"=", "a">>

InputTokens == { PathA, PathDotA, PathD, PathM, TokRemap, TokBadRemap }
ImportPaths == { PathA, PathDotA, PathB, PathD, PathM }

\* weakly_canonical / canonical: drop leading "./" segments, make absolute
RECURSIVE StripDot(_)
StripDot(p) ==
  IF Len(p) >= 2 /\ p[1] = "." /\ p[2] = "/"
    THEN StripDot(SubSeq(p, 3, Len(p)))
    ELSE p

Canonical(p) == IF Len(p) >= 1 /\ p[1] = "/" THEN p ELSE <<"/">> \o StripDot(p)

\* the kind of the object a canonical path names
FileSystem(c) ==
  IF c \in { <<"/", "a">>, <<"/", "b">> } THEN "file"
  ELSE IF c = <<"/", "d">> THEN "dir"
  ELSE "absent"

exists(p) == FileSystem(Canonical(p)) # "absent"
is_regular_file(p) == FileSystem(Canonical(p)) = "file"
readFileAsString(p) == <<"content of">> \o Canonical(p)

\* path::remove_filename: everything up to and including the last "/"
RECURSIVE remove_filename(_)
remove_filename(p) ==
  IF p = <<>> \/ p[Len(p)] = "/" THEN p
  ELSE remove_filename(SubSeq(p, 1, Len(p) - 1))

\* std::find(path.begin(), path.end(), c): index of the first c, Len+1 if none
RECURSIVE FindFrom(_, _, _)
FindFrom(s, c, i) ==
  IF i > Len(s) THEN Len(s) + 1
  ELSE IF s[i] = c THEN i
  ELSE FindFrom(s, c, i + 1)

find(s, c) == FindFrom(s, c, 1)

\* ------------------------------------------------------------------ faults
\* What a throw expression can raise: the exception classes of the catch
\* chains, Error with its two relevant types, and a value that is not a
\* std::exception at all.
FaultKinds ==
  { "CompilerError", "InternalCompilerError", "UnimplementedFeatureError",
    "DocstringParsingError", "TypeError", "Exception", "std::exception",
    "non-std" }

\* the classes a thrown object of each kind is an instance of
ClassesOf(k) ==
  CASE k \in { "CompilerError", "InternalCompilerError",
               "UnimplementedFeatureError" } -> { k, "Exception", "std::exception" }
    [] k \in { "DocstringParsingError", "TypeError" } ->
         { "Error", "Exception", "std::exception" }
    [] k = "Exception" -> { "Exception", "std::exception" }
    [] k = "std::exception" -> { "std::exception" }
    [] OTHER -> {}

\* a catch clause for class c ("..." catches everything) accepts a fault of kind k
Catches(c, k) == c = "..." \/ c \in ClassesOf(k)

\* index of the first clause of a catch chain that accepts k, 0 if none does
RECURSIVE FirstMatch(_, _, _)
FirstMatch(chain, k, i) ==
  IF i > Len(chain) THEN 0
  ELSE IF Catches(chain[i], k) THEN i
  ELSE FirstMatch(chain, k, i + 1)

\* ---------------------------------------------------------- output streams
NoArg == <<>>
\* one write: the channel, the accessor that gave the stream, what was written
Line(ch, via, kind, arg) == [ch |-> ch, via |-> via, kind |-> kind, arg |-> arg]

\* o is the pair [flag: g_hasOutput, log: what was written so far]
SoutWithoutFlag(o, kind, arg) ==
  [flag |-> o.flag, log |-> Append(o.log, Line("out", "sout", kind, arg))]

sout(o, kind, arg) ==
  [flag |-> TRUE, log |-> Append(o.log, Line("out", "sout", kind, arg))]

serr(o, kind, arg) ==
  [flag |-> TRUE, log |-> Append(o.log, Line("err", "serr", kind, arg))]

\* the formatter writes, with source references, to the stream it was given at
\* construction: serr(false), which leaves g_hasOutput alone
formatterPrint(o, kind, arg) ==
  [flag |-> o.flag, log |-> Append(o.log, Line("err", "formatter", kind, arg))]

SetFlagForgotten(o) == o

\* g_hasOutput = true, as the code writes it before each use of the formatter
SetFlag(o) == [o EXCEPT !.flag = TRUE]

\* ----------------------------------------------------------- source mapping
\* m_sourceCodes: a sequence of [key, content] with unique keys
Keys(m) == { m[i].key : i \in 1..Len(m) }
KeySeq(m) == [i \in 1..Len(m) |-> m[i].key]

Put(m, key, content) ==
  IF key \in Keys(m)
    THEN [i \in 1..Len(m) |->
            IF m[i].key = key THEN [key |-> key, content |-> content] ELSE m[i]]
    ELSE Append(m, [key |-> key, content |-> content])

\* ---------------------------------------------------------------- fileReader
ReadFileKind == "source"
CallbackKinds == { ReadFileKind, "smt-query" }
IoFaults == { "none", "Exception", "std::exception", "non-std" }
IoPoints == { "weakly_canonical", "readFileAsString" }

Result(success, text) == [success |-> success, responseOrErrorMessage |-> text]
Returned(res, sources) == [t |-> "return", res |-> res, sources |-> sources]
Thrown(k, sources) == [t |-> "throw", exc |-> k, sources |-> sources]

\* the content is recorded under the canonical path
FileReaderBodyCanonicalKey(sources, kind, path, io, at) ==
  IF kind # ReadFileKind THEN Thrown("InternalCompilerError", sources)
  ELSE IF io # "none" /\ at = "weakly_canonical" THEN Thrown(io, sources)
  ELSE IF ~exists(Canonical(path))
    THEN Returned(Result(FALSE, <<"File not found.">>), sources)
  ELSE IF ~is_regular_file(Canonical(path))
    THEN Returned(Result(FALSE, <<"Not a valid file.">>), sources)
  ELSE IF io # "none" /\ at = "readFileAsString" THEN Thrown(io, sources)
  ELSE LET contents == readFileAsString(Canonical(path))
       IN Returned(Result(TRUE, contents),
                   Put(sources, Canonical(path), contents))

\* the try block of the lambda: io names a fault the file system raises and the
\* call at which it does
fileReaderBody(sources, kind, path, io, at) ==
  IF kind # ReadFileKind THEN Thrown("InternalCompilerError", sources)
  ELSE IF io # "none" /\ at = "weakly_canonical" THEN Thrown(io, sources)
  ELSE IF ~exists(Canonical(path))
    THEN Returned(Result(FALSE, <<"File not found.">>), sources)
  ELSE IF ~is_regular_file(Canonical(path))
    THEN Returned(Result(FALSE, <<"Not a valid file.">>), sources)
  ELSE IF io # "none" /\ at = "readFileAsString" THEN Thrown(io, sources)
  ELSE LET contents == readFileAsString(Canonical(path))
       IN Returned(Result(TRUE, contents), Put(sources, path, contents))

FileReaderChainWithoutCatchAll == << "Exception" >>
fileReaderChain == << "Exception", "..." >>

fileReader(sources, kind, path, io, at) ==
  LET b == fileReaderBody(sources, kind, path, io, at)
      h == IF b.t = "throw" THEN FirstMatch(fileReaderChain, b.exc, 1) ELSE 0
  IN IF b.t = "return" \/ h = 0 THEN b
     ELSE IF fileReaderChain[h] = "Exception"
       THEN Returned(Result(FALSE, <<"Exception in read callback: ", b.exc>>),
                     b.sources)
     ELSE Returned(Result(FALSE, <<"Unknown exception in read callback.">>),
                   b.sources)

\* --------------------------------------------------------------- arguments
Has(args, opt) == opt \in args.flags
HasInput(args) == args.input # <<>>
NoArgs == [flags |-> {}, input |-> <<>>]

\* CompilerStack::parseRemapping on a token that contains "=":
\* [context:]prefix=target
parseRemapping(token) ==
  LET eq == find(token, "=")
      head == SubSeq(token, 1, eq - 1)
      colon == find(head, ":")
  IN [context |-> IF colon > Len(head) THEN <<>> ELSE SubSeq(head, 1, colon - 1),
      prefix |-> IF colon > Len(head) THEN head
                 ELSE SubSeq(head, colon + 1, Len(head)),
      target |-> SubSeq(token, eq + 1, Len(token))]

Loaded(ok, o, sources, remappings, allowed) ==
  [ok |-> ok, o |-> o, sources |-> sources, remappings |-> remappings,
   allowed |-> allowed]

NoInputFiles == "No input files given. If you wish to use the standard input please specify \"-\" explicitly."

\* the target of an accepted remapping is loaded as a source
ReadInputTokenLoadsTarget(args, o, remapOk) ==
  LET path == args.input[1]
      eq == find(path, "=")
      target == SubSeq(path, eq + 1, Len(path))
  IN IF ~HasInput(args) THEN Loaded(TRUE, o, <<>>, <<>>, <<>>)
     ELSE IF eq <= Len(path)
       THEN IF remapOk
              THEN Loaded(TRUE, o, Put(<<>>, target, readFileAsString(target)),
                          << parseRemapping(path) >>, << remove_filename(target) >>)
              ELSE Loaded(FALSE, serr(o, "Invalid remapping: ", path),
                          <<>>, <<>>, <<>>)
     ELSE IF ~exists(path)
       THEN Loaded(FALSE, serr(o, " is not found.", path), <<>>, <<>>, <<>>)
     ELSE IF ~is_regular_file(path)
       THEN Loaded(FALSE, serr(o, " is not a valid file.", path), <<>>, <<>>, <<>>)
     ELSE Loaded(TRUE, o, Put(<<>>, path, readFileAsString(path)), <<>>,
                 << remove_filename(Canonical(path)) >>)

\* a token that parseRemapping rejects is tried as a path
ReadInputTokenFallsBackToPath(args, o, remapOk) ==
  LET path == args.input[1]
      eq == find(path, "=")
  IN IF ~HasInput(args) THEN Loaded(TRUE, o, <<>>, <<>>, <<>>)
     ELSE IF eq <= Len(path) /\ remapOk
       THEN Loaded(TRUE, o, <<>>, << parseRemapping(path) >>,
                   << remove_filename(SubSeq(path, eq + 1, Len(path))) >>)
     ELSE IF ~exists(path)
       THEN Loaded(FALSE, serr(o, " is not found.", path), <<>>, <<>>, <<>>)
     ELSE IF ~is_regular_file(path)
       THEN Loaded(FALSE, serr(o, " is not a valid file.", path), <<>>, <<>>, <<>>)
     ELSE Loaded(TRUE, o, Put(<<>>, path, readFileAsString(path)), <<>>,
                 << remove_filename(Canonical(path)) >>)

\* lines 197-238, the handling of the input token; ok is FALSE where the code
\* returns false.  remapOk: whether parseRemapping accepts the token
readInputToken(args, o, remapOk) ==
  LET path == args.input[1]
      eq == find(path, "=")
  IN IF ~HasInput(args) THEN Loaded(TRUE, o, <<>>, <<>>, <<>>)
     ELSE IF eq <= Len(path)
       THEN IF remapOk
              THEN Loaded(TRUE, o, <<>>, << parseRemapping(path) >>,
                          << remove_filename(SubSeq(path, eq + 1, Len(path))) >>)
              ELSE Loaded(FALSE, serr(o, "Invalid remapping: ", path),
                          <<>>, <<>>, <<>>)
     ELSE IF ~exists(path)
       THEN Loaded(FALSE, serr(o, " is not found.", path), <<>>, <<>>, <<>>)
     ELSE IF ~is_regular_file(path)
       THEN Loaded(FALSE, serr(o, " is not a valid file.", path), <<>>, <<>>, <<>>)
     ELSE Loaded(TRUE, o, Put(<<>>, path, readFileAsString(path)), <<>>,
                 << remove_filename(Canonical(path)) >>)

ReadInputWithoutEmptyCheck(args, o, remapOk) ==
  readInputToken(args, o, remapOk)

readInputFilesAndConfigureRemappings(args, o, remapOk) ==
  LET r == readInputToken(args, o, remapOk)
  IN IF ~r.ok THEN r
     ELSE IF Len(r.sources) = 0
       THEN [r EXCEPT !.ok = FALSE, !.o = serr(r.o, NoInputFiles, NoArg)]
     ELSE r

\* ------------------------------------------------- configuring the engine
Opt(cond, steps) == IF cond THEN steps ELSE <<>>

ArtifactStepsBothTwice(args) ==
  Opt(Has(args, g_argTvmABI), << "generateAbi" >>)
  \o Opt(Has(args, g_argTvm), << "generateCode" >>)
  \o Opt(~Has(args, g_argTvm) \/ ~Has(args, g_argTvmABI),
         << "generateCode", "generateAbi" >>)

\* lines 428-435
ArtifactSteps(args) ==
  Opt(Has(args, g_argTvmABI), << "generateAbi" >>)
  \o Opt(Has(args, g_argTvm), << "generateCode" >>)
  \o Opt(~Has(args, g_argTvm) /\ ~Has(args, g_argTvmABI),
         << "generateCode", "generateAbi" >>)

DeprecationNotice == "Flag '--tvm-optimize' is deprecated. Code is optimized by default."

\* the statements of the try block up to and including the call of compile, in
\* order; all are calls of the engine but the deprecation notice
ConfigSteps(args) ==
  Opt(HasInput(args), << "setRemappings" >>)
  \o << "setSources" >>
  \o Opt(Has(args, g_argTvmUnsavedStructs), << "setStructWarning" >>)
  \o Opt(Has(args, g_argSetContract), << "setMainContract" >>)
  \o Opt(Has(args, g_argOutputDir), << "setOutputFolder" >>)
  \o Opt(Has(args, g_argFile), << "setFileNamePrefix" >>)
  \o ArtifactSteps(args)
  \o << "withOptimizations" >>
  \o Opt(Has(args, g_argTvmOptimize), << DeprecationNotice >>)
  \o Opt(Has(args, g_argDebug), << "withDebugInfo" >>)
  \o << "setInputFile", "compile" >>

IsEngineCall(step) == step # DeprecationNotice

\* the writes of the first n statements
RECURSIVE ConfigWrites(_, _, _)
ConfigWrites(o, steps, n) ==
  IF n = 0 THEN o
  ELSE LET before == ConfigWrites(o, steps, n - 1)
       IN IF IsEngineCall(steps[n]) THEN before
          ELSE serr(before, DeprecationNotice, NoArg)

\* --------------------------------------------- the catch chain of processInput
ProcessInputChainGenericFirst ==
  << "Exception", "CompilerError", "InternalCompilerError",
     "UnimplementedFeatureError", "Error", "std::exception", "..." >>

processInputChain ==
  << "CompilerError", "InternalCompilerError", "UnimplementedFeatureError",
     "Error", "Exception", "std::exception", "..." >>

\* the handler of clause c, run for a fault of kind k
handlerBody(o, c, k) ==
  CASE c = "CompilerError" ->
         formatterPrint(SetFlag(o), "Compiler error", << k >>)
    [] c = "InternalCompilerError" ->
         serr(o, "Internal compiler error during compilation:", << k >>)
    [] c = "UnimplementedFeatureError" ->
         serr(o, "Unimplemented feature:", << k >>)
    [] c = "Error" ->
         IF k = "DocstringParsingError"
           THEN serr(o, "Documentation parsing error: ", << k >>)
           ELSE formatterPrint(SetFlag(o), k, << k >>)
    [] c = "Exception" -> serr(o, "Exception during compilation: ", << k >>)
    [] c = "std::exception" ->
         serr(o, "Unknown exception during compilation", << k >>)
    [] OTHER -> serr(o, "Unknown exception during compilation.", NoArg)

\* what the catch clauses do with a fault of kind k raised in the try block:
\* the clauses that ran, the streams after, the fault that got away
catchFault(o, k) ==
  LET h == FirstMatch(processInputChain, k, 1)
  IN IF h = 0 THEN [ran |-> <<>>, o |-> o, escaped |-> k]
     ELSE [ran |-> << processInputChain[h] >>,
           o |-> handlerBody(o, processInputChain[h], k),
           escaped |-> "none"]

\* lines 450-454: every accumulated diagnostic goes through the formatter
RECURSIVE printErrors(_, _)
printErrors(o, errors) ==
  IF errors = <<>> THEN o
  ELSE printErrors(formatterPrint(SetFlag(o), "diagnostic", << Head(errors) >>),
                   Tail(errors))

\* ------------------------------------------------------------ output stage
AstTitle(argStr) ==
  IF argStr = g_argAstJson THEN "JSON AST:" ELSE "JSON AST (compact format):"

\* lines 537-541: banner and serialized tree of the units from index i on
RECURSIVE printAsts(_, _, _, _)
printAsts(o, sources, legacyFormat, i) ==
  IF i > Len(sources) THEN o
  ELSE LET banner == sout(o, "======= unit =======", sources[i].key)
           tree == sout(banner,
                        IF legacyFormat THEN "legacy AST" ELSE "compact AST",
                        sources[i].key)
       IN printAsts(tree, sources, legacyFormat, i + 1)

handleAst(o, args, sources, argStr) ==
  IF Has(args, argStr)
    THEN printAsts(sout(o, AstTitle(argStr), NoArg), sources,
                   ~Has(args, g_argAstCompactJson), 1)
    ELSE o

handleNatspec(o, args, natspecDev, contract) ==
  LET argName == IF natspecDev THEN g_argNatspecDev ELSE g_argNatspecUser
      title == IF natspecDev THEN "Developer Documentation"
               ELSE "User Documentation"
  IN IF Has(args, argName)
       THEN sout(sout(o, title, NoArg),
                 IF natspecDev THEN "natspecDev" ELSE "natspecUser", << contract >>)
       ELSE o

NeedsMoreThanOneKind(args) ==
  Cardinality({ g_argAstJson, g_argNatspecUser, g_argNatspecDev } \cap args.flags) > 1

needsHumanTargetedStdout(args) ==
  \E arg \in { g_argAstJson, g_argNatspecUser, g_argNatspecDev } : Has(args, arg)

\* lines 564-571, the contracts from index i on
RECURSIVE printContracts(_, _, _, _)
printContracts(o, args, contracts, i) ==
  IF i > Len(contracts) THEN o
  ELSE LET banner == IF needsHumanTargetedStdout(args)
                       THEN sout(o, "======= contract =======", << contracts[i] >>)
                       ELSE o
           dev == handleNatspec(banner, args, TRUE, contracts[i])
           user == handleNatspec(dev, args, FALSE, contracts[i])
       IN printContracts(user, args, contracts, i + 1)

HaltNotice == "Compilation halted after AST generation due to errors."
Advisory == "Compiler run successful, no output requested."

OutputResultsWithoutHalt(o, args, sources, compiler) ==
  [halted |-> FALSE,
   o |-> printContracts(
           handleAst(handleAst(o, args, sources, g_argAstJson),
                     args, sources, g_argAstCompactJson),
           args, compiler.contracts, 1)]

\* lines 554-571: the syntax trees, then the halt notice or the contracts
outputCompilationResults(o, args, sources, compiler) ==
  LET ast == handleAst(handleAst(o, args, sources, g_argAstJson),
                       args, sources, g_argAstCompactJson)
  IN IF ~compiler.successful
       THEN [halted |-> TRUE, o |-> serr(ast, HaltNotice, NoArg)]
       ELSE [halted |-> FALSE,
             o |-> printContracts(ast, args, compiler.contracts, 1)]

FinalCheckInverted(o) == IF o.flag THEN serr(o, Advisory, NoArg) ELSE o

\* lines 573-576
finalCheck(o) == IF ~o.flag THEN serr(o, Advisory, NoArg) ELSE o

\* -------------------------------------------------------------------- state
VARIABLES
  argv,                 \* the command line: options, positional token, whether
                        \* the option parser rejects it, whether stdin is a terminal
  pc,                   \* where the run is
  m_args,               \* the parsed options
  g_hasOutput,          \* the output tracker
  log,                  \* everything written to cout and cerr, in order
  m_sourceCodes, m_remappings, m_allowedDirectories,
  m_compiler,           \* the engine, as far as the driver sees it
  reads,                \* fileReader invocations so far
  lastResult,           \* what the last fileReader invocation returned
  lastRequest,          \* the path the last fileReader invocation was given
  callbackRaised,       \* the fault a fileReader invocation let through
  fault,                \* the fault raised in the try block of processInput
  caught,               \* the catch clauses of processInput that ran
  escaped,              \* the fault that left processInput
  processed,            \* what processInput returned
  exit                  \* the exit status

vars ==
  << argv, pc, m_args, g_hasOutput, log, m_sourceCodes, m_remappings,
     m_allowedDirectories, m_compiler, reads, lastResult, lastRequest,
     callbackRaised, fault, caught, escaped, processed, exit >>

O == [flag |-> g_hasOutput, log |-> log]

NoEngine ==
  [constructed |-> FALSE, calls |-> <<>>, errors |-> <<>>, returned |-> FALSE,
   successful |-> FALSE, didCompileSomething |-> FALSE, contracts |-> <<>>]

NoResult == Result(FALSE, <<>>)
ContractNames == << "C1", "C2", "C3", "C4" >>
DiagnosticIds == << "diagnostic 1", "diagnostic 2", "diagnostic 3", "diagnostic 4" >>

CommandLines ==
  { [flags |-> f, input |-> i, malformed |-> m, tty |-> t] :
      f \in { x \in SUBSET Options : Cardinality(x) <= MaxFlags },
      i \in { <<>> } \cup { << tok >> : tok \in InputTokens },
      m \in BOOLEAN, t \in BOOLEAN }

Init ==
  /\ argv \in { c \in CommandLines :
                  /\ c.malformed => c.flags = {} /\ c.input = <<>>
                  /\ c.tty => c.flags = {} /\ c.input = <<>> /\ ~c.malformed }
  /\ pc = "start"
  /\ m_args = NoArgs
  /\ g_hasOutput = FALSE
  /\ log = <<>>
  /\ m_sourceCodes = <<>>
  /\ m_remappings = <<>>
  /\ m_allowedDirectories = <<>>
  /\ m_compiler = NoEngine
  /\ reads = 0
  /\ lastResult = NoResult
  /\ lastRequest = <<>>
  /\ callbackRaised = "none"
  /\ fault = "none"
  /\ caught = <<>>
  /\ escaped = "none"
  /\ processed = "none"
  /\ exit = "running"

\* ----------------------------------------------------------- parseArguments
Parsed(ok, o, args, exited) == [ok |-> ok, o |-> o, args |-> args, exited |-> exited]

parseArguments(cmd) ==
  LET o == [flag |-> FALSE, log |-> log]
      args == [flags |-> cmd.flags, input |-> cmd.input]
  IN IF cmd.malformed
       THEN Parsed(FALSE, serr(o, "po::error", NoArg), NoArgs, FALSE)
     ELSE IF Has(args, g_argTvmABI) /\ Has(args, g_argTvm)
       THEN Parsed(FALSE,
                   serr(o, "Option tvm-abi and tvm are mutually exclusive.", NoArg),
                   args, FALSE)
     ELSE IF Has(args, g_argTvmPeephole)
       THEN IF args.flags # { g_argTvmPeephole } \/ HasInput(args)
              THEN Parsed(FALSE, o, args, FALSE)
              ELSE Parsed(FALSE, serr(o, "Missing filename.", NoArg), args, FALSE)
     ELSE IF Has(args, g_argHelp) \/ (cmd.tty /\ args = NoArgs)
       THEN Parsed(FALSE, sout(o, "desc", NoArg), args, FALSE)
     ELSE IF Has(args, g_argVersion)
       THEN Parsed(FALSE, sout(o, "Version: ", NoArg), args, TRUE)
     ELSE IF Has(args, g_strLicense)
       THEN Parsed(FALSE, sout(sout(o, "otherLicenses", NoArg), "licenseText", NoArg),
                   args, TRUE)
     ELSE Parsed(TRUE, o, args, FALSE)

ParseArguments ==
  /\ pc = "start"
  /\ LET r == parseArguments(argv)
     IN /\ m_args' = r.args
        /\ g_hasOutput' = r.o.flag
        /\ log' = r.o.log
        /\ pc' = IF r.ok THEN "parsed" ELSE "exit"
        /\ exit' = IF r.ok THEN "running"
                   ELSE IF r.exited THEN "success" ELSE "failure"
  /\ UNCHANGED << lastRequest, argv, m_sourceCodes, m_remappings, m_allowedDirectories,
                  m_compiler, reads, lastResult, callbackRaised, fault, caught,
                  escaped, processed >>

\* ------------------------------------------------------------- processInput
EngineCalls(steps) == SelectSeq(steps, IsEngineCall)

\* a fault of kind k leaves the try block: the catch chain, then return false
Caught(o, k) ==
  LET c == catchFault(o, k)
  IN /\ fault' = k
     /\ caught' = c.ran
     /\ escaped' = c.escaped
     /\ g_hasOutput' = c.o.flag
     /\ log' = c.o.log
     /\ processed' = IF c.escaped = "none" THEN "false" ELSE "none"
     /\ pc' = IF c.escaped = "none" THEN "returned" ELSE "exit"
     /\ exit' = IF c.escaped = "none" THEN "running" ELSE "terminate"

\* lines 368-443: load the input, construct and configure the engine, up to
\* the call of compile; k is the fault the statement number `at` raises
ProcessInput ==
  /\ pc = "parsed"
  /\ \E remapOk \in BOOLEAN, k \in FaultKinds \cup { "none" },
        at \in 1..Len(ConfigSteps(m_args)) :
       LET r == readInputFilesAndConfigureRemappings(m_args, O, remapOk)
           steps == ConfigSteps(m_args)
       IN /\ m_sourceCodes' = r.sources
          /\ m_remappings' = r.remappings
          /\ m_allowedDirectories' = r.allowed
          /\ IF ~r.ok
               THEN /\ g_hasOutput' = r.o.flag
                    /\ log' = r.o.log
                    /\ processed' = "false"
                    /\ pc' = "returned"
                    /\ UNCHANGED << m_compiler, fault, caught, escaped, exit >>
             ELSE IF k = "none"
               THEN /\ m_compiler' =
                         [NoEngine EXCEPT !.constructed = TRUE,
                                          !.calls = EngineCalls(steps)]
                    /\ g_hasOutput' = ConfigWrites(r.o, steps, Len(steps)).flag
                    /\ log' = ConfigWrites(r.o, steps, Len(steps)).log
                    /\ pc' = "compiling"
                    /\ UNCHANGED << fault, caught, escaped, processed, exit >>
             ELSE /\ at < Len(steps)
                  /\ IsEngineCall(steps[at])
                  /\ m_compiler' =
                       [NoEngine EXCEPT !.constructed = TRUE,
                                        !.calls = EngineCalls(SubSeq(steps, 1, at))]
                  /\ Caught(ConfigWrites(r.o, steps, at), k)
  /\ UNCHANGED << lastRequest, argv, m_args, reads, lastResult, callbackRaised >>

\* --------------------------------------------------- the engine, in compile
\* the engine asks for a file, at most `most` times in one compile; with
\* `traced` the requested path is kept in lastRequest
ReadsFile(most, traced) ==
  /\ pc = "compiling"
  /\ reads < most
  /\ \E kind \in CallbackKinds, path \in ImportPaths, io \in IoFaults,
        at \in IoPoints :
       LET r == fileReader(m_sourceCodes, kind, path, io, at)
       IN /\ reads' = reads + 1
          /\ lastRequest' = IF traced THEN path ELSE lastRequest
          /\ m_sourceCodes' = r.sources
          /\ IF r.t = "return"
               THEN /\ lastResult' = r.res
                    /\ UNCHANGED << callbackRaised, g_hasOutput, log, pc, fault,
                                    caught, escaped, processed, exit >>
               ELSE \* the fault crosses the engine and leaves compile
                    /\ callbackRaised' = r.exc
                    /\ lastResult' = NoResult
                    /\ Caught(O, r.exc)
  /\ UNCHANGED << argv, m_args, m_remappings, m_allowedDirectories, m_compiler >>

EngineReadsFile == ReadsFile(MaxReads, FALSE)

EngineReadsFileTraced == ReadsFile(MaxTracedReads, TRUE)

\* the engine records a diagnostic
EngineReportsError ==
  /\ pc = "compiling"
  /\ Len(m_compiler.errors) < MaxErrors
  /\ Len(m_compiler.errors) < Len(DiagnosticIds)
  /\ m_compiler' =
       [m_compiler EXCEPT !.errors = Append(@, DiagnosticIds[Len(@) + 1])]
  /\ UNCHANGED << lastRequest, argv, pc, m_args, g_hasOutput, log, m_sourceCodes,
                  m_remappings, m_allowedDirectories, reads, lastResult,
                  callbackRaised, fault, caught, escaped, processed, exit >>

\* lines 445-459 and 513: compile returns, the diagnostics are printed
CompileReturns ==
  /\ pc = "compiling"
  /\ \E successful \in BOOLEAN, didCompileSomething \in BOOLEAN,
        n \in 0..MaxContracts :
       /\ n <= Len(ContractNames)
       /\ m_compiler' = [m_compiler EXCEPT !.returned = TRUE,
                                           !.successful = successful,
                                           !.didCompileSomething = didCompileSomething,
                                           !.contracts = SubSeq(ContractNames, 1, n)]
       /\ LET o == printErrors([flag |-> g_hasOutput \/ didCompileSomething,
                                log |-> log], m_compiler.errors)
          IN /\ g_hasOutput' = o.flag
             /\ log' = o.log
       /\ processed' = IF successful THEN "true" ELSE "false"
  /\ pc' = "returned"
  /\ UNCHANGED << lastRequest, argv, m_args, m_sourceCodes, m_remappings,
                  m_allowedDirectories, reads, lastResult, callbackRaised, fault,
                  caught, escaped, exit >>

\* compile raises a fault
CompileThrows ==
  /\ pc = "compiling"
  /\ \E k \in FaultKinds : Caught(O, k)
  /\ UNCHANGED << lastRequest, argv, m_args, m_sourceCodes, m_remappings,
                  m_allowedDirectories, m_compiler, reads, lastResult,
                  callbackRaised >>

\* ------------------------------------------------- the caller of the driver
\* processInput returned false and the caller ends the run
CallerStops ==
  /\ pc = "returned"
  /\ processed = "false"
  /\ pc' = "exit"
  /\ exit' = "failure"
  /\ UNCHANGED << lastRequest, argv, m_args, g_hasOutput, log, m_sourceCodes, m_remappings,
                  m_allowedDirectories, m_compiler, reads, lastResult,
                  callbackRaised, fault, caught, escaped, processed >>

\* the caller goes on to the output stage once the compile call has completed,
\* whatever processInput returned
CallerActsOnInput == pc = "returned" /\ m_compiler.returned

\* ------------------------------------ actOnInput / outputCompilationResults
OutputCompilationResults ==
  /\ CallerActsOnInput
  /\ LET r == outputCompilationResults(O, m_args, m_sourceCodes, m_compiler)
     IN /\ g_hasOutput' = r.o.flag
        /\ log' = r.o.log
        /\ pc' = IF r.halted THEN "done" ELSE "final check"
        /\ exit' = IF r.halted THEN "failure" ELSE "running"
  /\ UNCHANGED << lastRequest, argv, m_args, m_sourceCodes, m_remappings,
                  m_allowedDirectories, m_compiler, reads, lastResult,
                  callbackRaised, fault, caught, escaped, processed >>

FinalCheck ==
  /\ pc = "final check"
  /\ g_hasOutput' = finalCheck(O).flag
  /\ log' = finalCheck(O).log
  /\ pc' = "done"
  /\ exit' = IF processed = "true" THEN "success" ELSE "failure"
  /\ UNCHANGED << lastRequest, argv, m_args, m_sourceCodes, m_remappings,
                  m_allowedDirectories, m_compiler, reads, lastResult,
                  callbackRaised, fault, caught, escaped, processed >>

Next ==
  \/ ParseArguments
  \/ ProcessInput
  \/ EngineReadsFile
  \/ EngineReportsError
  \/ CompileReturns
  \/ CompileThrows
  \/ CallerStops
  \/ OutputCompilationResults
  \/ FinalCheck

Spec == Init /\ [][Next]_vars

\* The runs of one input file without options, with every fileReader
\* invocation's requested path kept.
InitCallbacks ==
  /\ Init
  /\ argv.flags = {}
  /\ argv.input \in { << PathA >>, << PathDotA >> }

NextCallbacks ==
  \/ ParseArguments
  \/ ProcessInput
  \/ EngineReadsFileTraced
  \/ EngineReportsError
  \/ CompileReturns
  \/ CompileThrows
  \/ CallerStops
  \/ OutputCompilationResults
  \/ FinalCheck

SpecCallbacks == InitCallbacks /\ [][NextCallbacks]_vars

\* ------------------------------------------------------ reading the streams
Written(kind) == \E i \in 1..Len(log) : log[i].kind = kind
WrittenNext(kind) == \E i \in 1..Len(log') : log'[i].kind = kind
Count(kind, arg) ==
  Cardinality({ i \in 1..Len(log) : log[i].kind = kind /\ log[i].arg = arg })
LastLine == log[Len(log)]
IsUnitBanner(l) == l.kind = "======= unit ======="
IsTree(l) == l.kind \in { "legacy AST", "compact AST" }
IsDiagnostic(l) == l.kind = "diagnostic"
IsContractLevel(l) ==
  l.kind \in { "======= contract =======", "Developer Documentation",
               "User Documentation", "natspecDev", "natspecUser" }
IsContent(l) == IsUnitBanner(l) \/ IsTree(l) \/ IsContractLevel(l)
             \/ l.kind \in { AstTitle(g_argAstJson), AstTitle(g_argAstCompactJson) }
ArgsOf(lines) == [i \in 1..Len(lines) |-> lines[i].arg]
CountIn(seq, x) == Cardinality({ i \in 1..Len(seq) : seq[i] = x })
CompileInvoked == CountIn(m_compiler.calls, "compile") > 0

\* ------------------------------------------------------------------- C1
\* C1, as stated: when the output stage has finished, the advisory has been
\* printed if and only if g_hasOutput is false at the end of the run.
C1_AdvisoryIffFlagFalseAtEnd ==
  pc = "done" => (Written(Advisory) <=> ~g_hasOutput)

\* C1, amended: the advisory is printed exactly by the final check of the
\* output stage finding g_hasOutput false (the write of the advisory then sets
\* the flag), and never in a run in which syntax-tree or documentation output
\* was written.
C1_AdvisoryIffFlagFalseAtCheck ==
  [][ /\ WrittenNext(Advisory) <=> (pc = "final check" /\ ~g_hasOutput)
      /\ WrittenNext(Advisory) =>
           /\ \A i \in 1..Len(log') : ~IsContent(log'[i])
           /\ g_hasOutput' ]_vars

C1_Witness == pc = "done" /\ Written(Advisory) /\ g_hasOutput

\* ------------------------------------------------------------------- C2
\* C2: when the output stage has finished and at least one of the two
\* syntax-tree flags was given, each unit of m_sourceCodes got its banner and
\* its serialized tree exactly once, in the mapping's order, whether or not
\* compile reported success.
C2_AstOncePerUnit ==
  (pc = "done" /\ (Has(m_args, g_argAstJson) \/ Has(m_args, g_argAstCompactJson)))
    => /\ ArgsOf(SelectSeq(log, IsUnitBanner)) = KeySeq(m_sourceCodes)
       /\ ArgsOf(SelectSeq(log, IsTree)) = KeySeq(m_sourceCodes)

\* ------------------------------------------------------------------- C3
BothArtifactFlags == Has(argv, g_argTvmABI) /\ Has(argv, g_argTvm)
BadInputToken ==
  \/ ~HasInput(m_args)
  \/ find(m_args.input[1], "=") <= Len(m_args.input[1])
  \/ ~exists(m_args.input[1])
  \/ ~is_regular_file(m_args.input[1])
UserInputError ==
  \/ pc # "start" /\ BothArtifactFlags
  \/ pc \notin { "start", "parsed" } /\ (processed # "none" \/ pc = "compiling")
       /\ BadInputToken
UserInputDiagnostics ==
  { "Option tvm-abi and tvm are mutually exclusive.", " is not found.",
    " is not a valid file.", "Invalid remapping: ", NoInputFiles }

\* C3: after a user-input error (both artifact flags; missing path; path that
\* is no regular file; invalid remapping; no input files) exactly one
\* diagnostic has been written, the run fails, the engine was never
\* constructed and fileReader never invoked.
C3_UserErrorReportedOnceNoEngine ==
  UserInputError =>
    /\ Len(log) = 1
    /\ log[1].ch = "err"
    /\ log[1].kind \in UserInputDiagnostics
    /\ ~m_compiler.constructed
    /\ m_compiler.calls = <<>>
    /\ reads = 0
    /\ processed # "true"
    /\ pc \in { "returned", "exit" }
    /\ pc = "exit" => exit = "failure"

C3_Witness ==
  /\ pc = "exit"
  /\ m_args.input = << PathM >>
  /\ Written(" is not found.")

\* ------------------------------------------------------------------- C4
\* C4: no fileReader invocation lets a fault through; each one ends by
\* returning a Result, success with the content or failure with a reason.
C4_FileReaderNeverRaises ==
  /\ callbackRaised = "none"
  /\ reads > 0 =>
       /\ lastResult.responseOrErrorMessage # <<>>
       /\ lastResult.success =>
            \E p \in ImportPaths :
              lastResult.responseOrErrorMessage = readFileAsString(p)

C4_Witness ==
  /\ reads > 0
  /\ lastResult = Result(FALSE, << "Unknown exception in read callback." >>)

\* ------------------------------------------------------------------- C5
\* the rendering each category of fault gets
CategoryLabel(k) ==
  CASE k = "CompilerError" -> "Compiler error"
    [] k = "InternalCompilerError" -> "Internal compiler error during compilation:"
    [] k = "UnimplementedFeatureError" -> "Unimplemented feature:"
    [] k = "DocstringParsingError" -> "Documentation parsing error: "
    [] k = "TypeError" -> "TypeError"
    [] k = "Exception" -> "Exception during compilation: "
    [] k = "std::exception" -> "Unknown exception during compilation"
    [] OTHER -> "Unknown exception during compilation."

\* C5: a fault raised in the try block of processInput is caught by exactly
\* one catch clause, reported under the label of its own category,
\* processInput returns false and the fault does not leave the driver.
C5_FaultCaughtOnceAndClassified ==
  fault # "none" =>
    /\ Len(caught) = 1
    /\ escaped = "none"
    /\ processed = "false"
    /\ exit # "terminate"
    /\ LastLine.kind = CategoryLabel(fault)
    /\ LastLine.ch = "err"
    /\ Cardinality({ i \in 1..Len(log) :
                       log[i].kind \in { CategoryLabel(k) : k \in FaultKinds } }) = 1

C5_Witness ==
  /\ fault = "CompilerError"
  /\ CompileInvoked
  /\ pc = "returned"
  /\ processed = "false"

\* ------------------------------------------------------------------- C6
\* C6: once compile has been invoked and processInput is over, every
\* diagnostic the engine accumulated has been formatted to the diagnostic
\* channel, in order, whether compile succeeded, failed or raised a fault.
C6_AllDiagnosticsFormatted ==
  (CompileInvoked /\ pc # "compiling")
    => SelectSeq(log, IsDiagnostic)
         = [i \in 1..Len(m_compiler.errors) |->
              Line("err", "formatter", "diagnostic", << m_compiler.errors[i] >>)]

\* ------------------------------------------------------------------- C7
OutputStageSucceeded ==
  pc \in { "final check", "done" } /\ m_compiler.returned /\ m_compiler.successful
HumanTargetedKinds ==
  { g_argAstJson, g_argNatspecUser, g_argNatspecDev } \cap m_args.flags
Banners(contract) == Count("======= contract =======", << contract >>)

\* C7, as stated: each contract gets its banner if and only if more than one
\* human-targeted output kind was requested.
C7_BannerIffMoreThanOneKind ==
  OutputStageSucceeded =>
    \A i \in 1..Len(m_compiler.contracts) :
      Banners(m_compiler.contracts[i])
        = IF Cardinality(HumanTargetedKinds) > 1 THEN 1 ELSE 0

\* C7, amended: each contract gets its banner if and only if at least one of
\* ast-json, userdoc, devdoc was requested; with none of them no banner.
C7_BannerIffAnyKind ==
  OutputStageSucceeded =>
    \A i \in 1..Len(m_compiler.contracts) :
      Banners(m_compiler.contracts[i])
        = IF Cardinality(HumanTargetedKinds) >= 1 THEN 1 ELSE 0

C7_Witness ==
  /\ OutputStageSucceeded
  /\ HumanTargetedKinds = { g_argNatspecDev }
  /\ m_compiler.contracts # <<>>
  /\ Banners(m_compiler.contracts[1]) = 1

\* ------------------------------------------------------------------- C8
\* C8: contract-level output (banner, developer or user documentation) is
\* written only when the engine reports full success; when it does not, the
\* output stage ends with the halt notice, written once, after the
\* syntax-tree output, and the advisory is not printed.
C8_NoContractOutputUnlessSuccess ==
  /\ (\E i \in 1..Len(log) : IsContractLevel(log[i]))
       => m_compiler.returned /\ m_compiler.successful
  /\ Written(HaltNotice) => pc = "done" /\ ~m_compiler.successful
  /\ (pc = "done" /\ ~m_compiler.successful) =>
       /\ LastLine = Line("err", "serr", HaltNotice, NoArg)
       /\ Count(HaltNotice, NoArg) = 1
       /\ ~Written(Advisory)

C8_Witness ==
  /\ pc = "done"
  /\ ~m_compiler.successful
  /\ m_compiler.contracts # <<>>
  /\ Has(m_args, g_argNatspecDev)
  /\ Has(m_args, g_argAstJson)
  /\ Len(log) >= 4
  /\ IsTree(log[Len(log) - 1])
  /\ LastLine.kind = HaltNotice

\* ------------------------------------------------------------------- C9
OutputComponentOptions ==
  { g_argAstJson, g_argAstCompactJson, g_argNatspecUser, g_argNatspecDev,
    g_argTvm, g_argTvmABI, g_argTvmPeephole, g_argTvmOptimize,
    g_argTvmUnsavedStructs, g_argDebug }
NoOutputComponentFlags == m_args.flags \cap OutputComponentOptions = {}
AdvisoryLine == Line("err", "serr", Advisory, NoArg)

\* C9, as stated: one valid file, no output-component flags, compile
\* succeeded: when the output stage has finished g_hasOutput is still false and
\* the last line of the diagnostic channel is the advisory.
C9_FlagFalseAndAdvisoryLast ==
  (pc = "done" /\ processed = "true" /\ NoOutputComponentFlags)
    => ~g_hasOutput /\ log # <<>> /\ LastLine = AdvisoryLine

\* C9, amended: one valid file, no output-component flags, compile succeeded.
\* If the engine compiled nothing and reported no diagnostic, g_hasOutput is
\* still false when the output stage reaches its final check, and the advisory
\* is then written as the only line of the run, its write setting the flag;
\* otherwise the flag is already set and no advisory is written.
C9_AdvisoryWhenNothingCompiled ==
  [][ (pc = "final check" /\ NoOutputComponentFlags) =>
        IF ~m_compiler.didCompileSomething /\ m_compiler.errors = <<>>
          THEN ~g_hasOutput /\ log' = << AdvisoryLine >> /\ g_hasOutput'
          ELSE g_hasOutput /\ log' = log /\ ~WrittenNext(Advisory) ]_vars

C9_Witness ==
  /\ pc = "done"
  /\ processed = "true"
  /\ m_args = [flags |-> {}, input |-> << PathA >>]
  /\ log = << AdvisoryLine >>
  /\ g_hasOutput

\* ------------------------------------------------------------------ C10
\* C10: when compile is called, generateAbi has been called once if tvm-abi
\* was given or neither tvm-abi nor tvm was, and not at all otherwise;
\* generateCode once if tvm was given or neither was, and not at all
\* otherwise; compile is called once, after both.
C10_ArtifactSelection ==
  /\ CountIn(m_compiler.calls, "generateAbi") <= 1
  /\ CountIn(m_compiler.calls, "generateCode") <= 1
  /\ CompileInvoked =>
       /\ CountIn(m_compiler.calls, "generateAbi")
            = IF Has(m_args, g_argTvmABI)
                 \/ (~Has(m_args, g_argTvmABI) /\ ~Has(m_args, g_argTvm))
                THEN 1 ELSE 0
       /\ CountIn(m_compiler.calls, "generateCode")
            = IF Has(m_args, g_argTvm)
                 \/ (~Has(m_args, g_argTvmABI) /\ ~Has(m_args, g_argTvm))
                THEN 1 ELSE 0
       /\ CountIn(m_compiler.calls, "compile") = 1
       /\ m_compiler.calls[Len(m_compiler.calls)] = "compile"

C10_Witness ==
  /\ pc = "compiling"
  /\ ~Has(m_args, g_argTvmABI)
  /\ ~Has(m_args, g_argTvm)
  /\ CountIn(m_compiler.calls, "generateAbi") = 1
  /\ CountIn(m_compiler.calls, "generateCode") = 1

\* ------------------------------------------------------------------ C11
\* readInputFilesAndConfigureRemappings has run
InputRead == pc \notin { "start", "parsed" } /\ (processed # "none" \/ pc = "compiling")
TokenHasEq ==
  HasInput(m_args) /\ \E i \in 1..Len(m_args.input[1]) : m_args.input[1][i] = "="
PathDiagnostics == { " is not found.", " is not a valid file." }

\* C11: a token without "=" is handled as a path and leaves no remapping; a
\* token with "=" goes to remapping parsing and is never examined as a path
\* nor loaded as a source, and when the parse fails the run fails with the
\* single diagnostic "Invalid remapping".
C11_TokenClassification ==
  (InputRead /\ HasInput(m_args)) =>
    IF TokenHasEq
      THEN /\ m_sourceCodes = <<>>
           /\ \A i \in 1..Len(log) : log[i].kind \notin PathDiagnostics
           /\ processed = "false"
           /\ \/ /\ m_remappings = << parseRemapping(m_args.input[1]) >>
                 /\ ~Written("Invalid remapping: ")
              \/ /\ m_remappings = <<>>
                 /\ m_allowedDirectories = <<>>
                 /\ log = << Line("err", "serr", "Invalid remapping: ",
                                  m_args.input[1]) >>
      ELSE /\ m_remappings = <<>>
           /\ ~Written("Invalid remapping: ")
           /\ \/ Keys(m_sourceCodes) \cap { m_args.input[1] } # {}
              \/ \E i \in 1..Len(log) : log[i].kind \in PathDiagnostics

C11_Witness ==
  /\ InputRead
  /\ m_args.input = << TokBadRemap >>
  /\ Written("Invalid remapping: ")
  /\ m_sourceCodes = <<>>
  /\ processed = "false"

\* ------------------------------------------------------------------ C12
\* C12: from the reset of the flag in parseArguments on, whenever something
\* has been written to the content or the diagnostic channel, the writes of
\* the formatter included, g_hasOutput is true.
C12_WrittenImpliesFlag ==
  (pc # "start" /\ log # <<>>) => g_hasOutput

\* only the formatter has written, and the engine compiled nothing
C12_Witness ==
  /\ log # <<>>
  /\ \A i \in 1..Len(log) : log[i].via = "formatter"
  /\ ~m_compiler.didCompileSomething
  /\ m_compiler.returned
  /\ g_hasOutput

\* ------------------------------------------------------------------ C13
\* C13: when the input token contains "=", readInputFilesAndConfigureRemappings
\* returns false: with "Invalid remapping", or, the remapping accepted, with
\* the source mapping empty and "No input files given"; so the engine is
\* never constructed, let alone configured, with a non-empty remapping list.
C13_RemappingTokenNeverCompiles ==
  /\ (InputRead /\ TokenHasEq) =>
       /\ processed = "false"
       /\ pc \in { "returned", "exit" }
       /\ m_sourceCodes = <<>>
       /\ ~m_compiler.constructed
       /\ Len(log) = 1
       /\ IF m_remappings = <<>>
            THEN log[1].kind = "Invalid remapping: "
            ELSE log[1].kind = NoInputFiles
  /\ m_compiler.constructed => m_remappings = <<>>

C13_Witness ==
  /\ pc = "exit"
  /\ m_args.input = << TokRemap >>
  /\ m_remappings = << [context |-> << "c" >>, prefix |-> << "l" >>,
                        target |-> << "d" >>] >>
  /\ log = << Line("err", "serr", NoInputFiles, NoArg) >>
  /\ exit = "failure"

\* ------------------------------------------------------------------ C14
\* C14: a fileReader invocation that returns failure leaves m_sourceCodes as
\* it was; one that returns success sets the entry keyed by the requested
\* path, as given, to the content it returns, adds no other key, and leaves
\* every entry under another key, and the order of the entries, as they were.
C14_ReaderFrame ==
  [][ reads' # reads =>
        IF lastResult'.success
          THEN /\ Keys(m_sourceCodes') = Keys(m_sourceCodes) \cup { lastRequest' }
               /\ Len(m_sourceCodes') = Cardinality(Keys(m_sourceCodes'))
               /\ \A i \in 1..Len(m_sourceCodes) :
                    /\ m_sourceCodes'[i].key = m_sourceCodes[i].key
                    /\ m_sourceCodes[i].key # lastRequest'
                         => m_sourceCodes'[i] = m_sourceCodes[i]
               /\ \A i \in 1..Len(m_sourceCodes') :
                    m_sourceCodes'[i].key = lastRequest'
                      => m_sourceCodes'[i].content
                           = lastResult'.responseOrErrorMessage
          ELSE m_sourceCodes' = m_sourceCodes ]_vars

\* "./a" was read after "a" and "b": the same file as "a", under its own key
C14_Witness ==
  /\ reads = 2
  /\ lastRequest = PathDotA
  /\ lastResult = Result(TRUE, readFileAsString(PathA))
  /\ KeySeq(m_sourceCodes) = << PathA, PathB, PathDotA >>

====
